---- MODULE Spec2Model ----
(***************************************************************************)
(* A model of fabric/main.py and fabric/state.py: the settings loader, the *)
(* fabfile locator, the fabfile importer, main() and the command-line      *)
(* argument parser.                                                        *)
(*                                                                         *)
(* Strings are sequences of one-character strings, so that splitting,      *)
(* partitioning, stripping and %-interpolation are computed character by   *)
(* character as Python computes them.  A Python exception is a value       *)
(* [exc |-> <class name>, val |-> <<>>]; a normal result has exc = "".     *)
(*                                                                         *)
(* parse_arguments calls partition(s, sep) and reads ENV, two names that   *)
(* main.py neither defines nor imports.  partition is taken to be the      *)
(* helper with the contract of str.partition (a split at the first sep)    *)
(* and ENV the environment mapping that the values are interpolated        *)
(* against.  parse_arguments is not called by main and is modelled as a    *)
(* call of its own (SpecParse), as is find_fabfile for the property of its *)
(* loop (SpecFind); Spec is main().                                        *)
(***************************************************************************)
EXTENDS Integers, Sequences, FiniteSets, TLC

VARIABLES
    \* ---- parse_arguments (main.py 162-216)
    ENV,        \* the environment the values are interpolated against (line 212)
    args,       \* the argument of parse_arguments: a list of tokens
    cmds,       \* the list being built (line 194)
    ppc,        \* position in parse_arguments: "idle", "loop", "returned", "raised"
    \* ---- main (main.py 219-290) and the shared state (state.py)
    mpc,        \* position in main
    status,     \* the argument of sys.exit, -1 while running
    options,    \* the options parse_options returned
    env,        \* state.env
    commands,   \* state.commands: the names of the loaded callables
    \* ---- load_settings (main.py 32-40)
    home,       \* the files of the home directory: name -> content
    settings,   \* what load_settings returned
    \* ---- find_fabfile (main.py 43-64)
    cwd,        \* the working directory, a list of path components
    files,      \* the files that exist, each a list of path components
    path,       \* the local path: a relative path, a list of components
    fabfile,    \* what find_fabfile returned
    \* ---- load_fabfile (main.py 67-84)
    sys_path,       \* sys.path, a list of directories
    sys_path_before, \* sys.path when load_fabfile was called
    added_to_path,  \* the local of that name
    imported        \* the bindings of the imported module: name -> is callable

pvars == <<ENV, args, cmds, ppc>>
mvars == <<mpc, status, options, env, commands>>
mvars_but_mpc == <<status, options, env, commands>>
svars == <<home, settings>>
fvars == <<cwd, files, path, fabfile>>
lvars == <<sys_path, sys_path_before, added_to_path, imported>>
vars == <<pvars, mvars, svars, fvars, lvars>>

\* ------------------------------------------------------------------ bounds
\* most tokens on a command line
MaxArgs == 2
\* most argspecs on a command line, over all its tokens
MaxArgspecs == 2
\* most line pieces in the settings file
MaxLines == 2
\* depth of the deepest working directory
MaxDepth == 2

\* ------------------------------------------------------------ Python values
Ok(v) == [exc |-> "", val |-> v]
Raise(e) == [exc |-> e, val |-> <<>>]

\* None, and a value that is not None
None == [none |-> TRUE, val |-> <<>>]
Some(v) == [none |-> FALSE, val |-> v]

\* a dict with no entries
EmptyDict == <<>>

\* d[k] = v  (dict item assignment: an existing key is overwritten)
DictSet(d, k, v) == [x \in (DOMAIN d) \cup {k} |-> IF x = k THEN v ELSE d[x]]

\* d.update(e)
DictUpdate(d, e) == [x \in (DOMAIN d) \cup (DOMAIN e) |-> IF x \in DOMAIN e THEN e[x] ELSE d[x]]

\* ------------------------------------------------------------ str methods
\* the characters str.strip() removes
Whitespace == {" ", "\n", "\t"}

\* index of the first occurrence of the character c in s at or after i, 0 if none
RECURSIVE find(_, _, _)
find(s, c, i) ==
    IF i > Len(s) THEN 0
    ELSE IF s[i] = c THEN i
    ELSE find(s, c, i + 1)

\* s.partition(sep), sep one character: (head, sep, tail), or (s, '', '')
str_partition(s, sep) ==
    LET i == find(s, sep, 1) IN
    IF i = 0 THEN <<s, <<>>, <<>>>>
    ELSE <<SubSeq(s, 1, i - 1), <<sep>>, SubSeq(s, i + 1, Len(s))>>

\* the module-level helper partition(s, sep) called at line 202
partition(s, sep) == str_partition(s, sep)

\* s.split(sep), sep one character: always at least one element
RECURSIVE split(_, _)
split(s, sep) ==
    LET i == find(s, sep, 1) IN
    IF i = 0 THEN <<s>>
    ELSE <<SubSeq(s, 1, i - 1)>> \o split(SubSeq(s, i + 1, Len(s)), sep)

\* s.split(sep, 1), for an s that contains sep
split1(s, sep) ==
    LET i == find(s, sep, 1) IN
    <<SubSeq(s, 1, i - 1), SubSeq(s, i + 1, Len(s))>>

RECURSIVE lstrip(_)
lstrip(s) ==
    IF s # <<>> /\ Head(s) \in Whitespace THEN lstrip(Tail(s)) ELSE s

RECURSIVE rstrip(_)
rstrip(s) ==
    IF s # <<>> /\ s[Len(s)] \in Whitespace THEN rstrip(SubSeq(s, 1, Len(s) - 1)) ELSE s

\* s.strip()
strip(s) == rstrip(lstrip(s))

\* s.startswith(c), c one character
startswith(s, c) == s # <<>> /\ s[1] = c

\* sep.join(list)
RECURSIVE join(_, _)
join(sep, list) ==
    IF list = <<>> THEN <<>>
    ELSE IF Len(list) = 1 THEN list[1]
    ELSE list[1] \o sep \o join(sep, Tail(list))

\* ------------------------------------------------------- fmt % mapping
\* conversion flags and length modifiers, skipped before the conversion type
FormatFlags == {"-", "+", " ", "#", "0"}
LengthMods == {"h", "l", "L"}
\* conversion types that need a number: a string or a mapping gives TypeError
NumberConv == {"d", "i", "o", "u", "x", "X", "e", "E", "f", "F", "g", "G"}

\* index of the ")" that closes the "(" at position i (nested parentheses
\* are counted), 0 when the format ends first
RECURSIVE closing(_, _, _)
closing(fmt, i, depth) ==
    IF i > Len(fmt) THEN 0
    ELSE IF fmt[i] = ")" THEN (IF depth = 1 THEN i ELSE closing(fmt, i + 1, depth - 1))
    ELSE IF fmt[i] = "(" THEN closing(fmt, i + 1, depth + 1)
    ELSE closing(fmt, i + 1, depth)

RECURSIVE skip(_, _, _)
skip(fmt, i, set) ==
    IF i <= Len(fmt) /\ fmt[i] \in set THEN skip(fmt, i + 1, set) ELSE i

\* The rendering of the mapping itself (a conversion that names no key takes
\* the whole mapping as its argument): one opaque character.
StrOfMapping == <<"{...}">>

\* fmt % mapping, scanning from position i with out already produced;
\* used says that a conversion without a key has consumed the mapping
RECURSIVE format(_, _, _, _, _)
format(fmt, i, mapping, out, used) ==
    IF i > Len(fmt) THEN Ok(out)
    ELSE IF fmt[i] # "%" THEN format(fmt, i + 1, mapping, Append(out, fmt[i]), used)
    ELSE
      LET keyed == i + 1 <= Len(fmt) /\ fmt[i + 1] = "("
          close == IF keyed THEN closing(fmt, i + 2, 1) ELSE 0
          key == IF keyed /\ close # 0 THEN SubSeq(fmt, i + 2, close - 1) ELSE <<>>
          j0 == IF keyed THEN close + 1 ELSE i + 1
          j1 == skip(fmt, j0, FormatFlags)
          j == IF j1 <= Len(fmt) /\ fmt[j1] \in LengthMods THEN j1 + 1 ELSE j1
      IN
      IF keyed /\ close = 0 THEN Raise("ValueError")
      ELSE IF keyed /\ key \notin DOMAIN mapping THEN Raise("KeyError")
      ELSE IF j > Len(fmt) THEN Raise("ValueError")
      ELSE IF fmt[j] = "%" THEN format(fmt, j + 1, mapping, Append(out, "%"), used)
      ELSE IF ~keyed /\ used THEN Raise("TypeError")
      ELSE IF fmt[j] \in {"s", "r"} THEN
          format(fmt, j + 1, mapping,
                 out \o (IF keyed THEN mapping[key] ELSE StrOfMapping),
                 used \/ ~keyed)
      ELSE IF fmt[j] \in NumberConv \cup {"c"} THEN Raise("TypeError")
      ELSE Raise("ValueError")

\* v % ENV  (line 212)
Interpolate(v, mapping) == format(v, 1, mapping, <<>>, FALSE)

\* ---------------------------------------------------------- parse_arguments
\* The locals of one pass of the outer loop
NoArgs == [cmd_args |-> <<>>, cmd_kwargs |-> EmptyDict, cmd_hosts |-> <<>>]

\* [x.strip() for x in v.split(';')]
RECURSIVE strip_each(_)
strip_each(list) ==
    IF list = <<>> THEN <<>> ELSE <<strip(Head(list))>> \o strip_each(Tail(list))

\* parse_arg_kv with only 'host' caught: 'hosts' is recorded as a keyword argument
parse_arg_kv_hosts_kept(cmd_arg_kv, st, mapping) ==
    LET kv == partition(cmd_arg_kv, "=")
        k == kv[1]
        v == kv[3]
    IN
    IF v # <<>> THEN
        IF k = <<"h","o","s","t">>
        THEN Ok([st EXCEPT !.cmd_hosts = <<strip(v)>>])
        ELSE
            LET r == Interpolate(v, mapping) IN
            IF r.exc # "" THEN r
            ELSE Ok([st EXCEPT !.cmd_kwargs =
                        DictSet(@, k, IF r.val # <<>> THEN r.val ELSE k)])
    ELSE Ok([st EXCEPT !.cmd_args = Append(@, k)])

\* parse_arg_kv with cmd_args.insert(0, k) for cmd_args.append(k)
parse_arg_kv_insert_front(cmd_arg_kv, st, mapping) ==
    LET kv == partition(cmd_arg_kv, "=")
        k == kv[1]
        v == kv[3]
    IN
    IF v # <<>> THEN
        IF k \in {<<"h","o","s","t">>, <<"h","o","s","t","s">>} THEN
            IF k = <<"h","o","s","t">>
            THEN Ok([st EXCEPT !.cmd_hosts = <<strip(v)>>])
            ELSE Ok([st EXCEPT !.cmd_hosts = strip_each(split(v, ";"))])
        ELSE
            LET r == Interpolate(v, mapping) IN
            IF r.exc # "" THEN r
            ELSE Ok([st EXCEPT !.cmd_kwargs =
                        DictSet(@, k, IF r.val # <<>> THEN r.val ELSE k)])
    ELSE Ok([st EXCEPT !.cmd_args = <<k>> \o @])

\* parse_arg_kv without the 'or k' fallback of line 212
parse_arg_kv_no_fallback(cmd_arg_kv, st, mapping) ==
    LET kv == partition(cmd_arg_kv, "=")
        k == kv[1]
        v == kv[3]
    IN
    IF v # <<>> THEN
        IF k \in {<<"h","o","s","t">>, <<"h","o","s","t","s">>} THEN
            IF k = <<"h","o","s","t">>
            THEN Ok([st EXCEPT !.cmd_hosts = <<strip(v)>>])
            ELSE Ok([st EXCEPT !.cmd_hosts = strip_each(split(v, ";"))])
        ELSE
            LET r == Interpolate(v, mapping) IN
            IF r.exc # "" THEN r
            ELSE Ok([st EXCEPT !.cmd_kwargs = DictSet(@, k, r.val)])
    ELSE Ok([st EXCEPT !.cmd_args = Append(@, k)])

\* lines 202-214: the body of the inner loop, for one argspec
parse_arg_kv(cmd_arg_kv, st, mapping) ==
    LET kv == partition(cmd_arg_kv, "=")
        k == kv[1]
        v == kv[3]
    IN
    IF v # <<>> THEN
        IF k \in {<<"h","o","s","t">>, <<"h","o","s","t","s">>} THEN
            IF k = <<"h","o","s","t">>
            THEN Ok([st EXCEPT !.cmd_hosts = <<strip(v)>>])
            ELSE Ok([st EXCEPT !.cmd_hosts = strip_each(split(v, ";"))])
        ELSE
            LET r == Interpolate(v, mapping) IN
            IF r.exc # "" THEN r
            ELSE Ok([st EXCEPT !.cmd_kwargs =
                        DictSet(@, k, IF r.val # <<>> THEN r.val ELSE k)])
    ELSE Ok([st EXCEPT !.cmd_args = Append(@, k)])

\* lines 201-214: the inner loop over the argspecs
RECURSIVE parse_str_args(_, _, _)
parse_str_args(specs, st, mapping) ==
    IF specs = <<>> THEN Ok(st)
    ELSE LET r == parse_arg_kv(Head(specs), st, mapping) IN
         IF r.exc # "" THEN r
         ELSE parse_str_args(Tail(specs), r.val, mapping)

\* lines 196-215: one pass of the outer loop; the record appended to cmds
parse_cmd(cmd, mapping) ==
    IF find(cmd, ":", 1) # 0 THEN
        LET parts == split1(cmd, ":")
            r == parse_str_args(split(parts[2], ","), NoArgs, mapping)
        IN
        IF r.exc # "" THEN r
        ELSE Ok(<<parts[1], r.val.cmd_args, r.val.cmd_kwargs, r.val.cmd_hosts>>)
    ELSE Ok(<<cmd, <<>>, EmptyDict, <<>>>>)

\* the fields of a record of cmds
Name(rec) == rec[1]
PositionalArgs(rec) == rec[2]
KeywordArgs(rec) == rec[3]
HostOverrides(rec) == rec[4]

\* ------------------------------------------------------ the command line
\* Character sequences of the words used below
S_t == <<"t">>
S_d == <<"d">>
S_k == <<"k">>
S_e == <<"e">>
S_v == <<"v">>
S_host == <<"h","o","s","t">>
S_hosts == <<"h","o","s","t","s">>
S_version == <<"v","e","r","s","i","o","n">>
S_settings_file == <<"s","e","t","t","i","n","g","s","_","f","i","l","e">>

\* the task name of the i-th token of a command line
TaskNames == <<S_t, S_d, <<"u">>, <<"w">>, <<"x">>>>

\* the argspecs a token is built from
ArgSpecs == {
    <<>>,                                           \* (empty)
    <<"p">>,                                        \* p
    <<"k","=">>,                                    \* k=
    <<"k","=","v">>,                                \* k=v
    <<"=","%","(","e",")","s">>,                    \* =%(e)s
    <<"k","=","%","(","e",")","s">>,                \* k=%(e)s
    <<"k","=","%","%">>,                            \* k=%%
    <<"h","o","s","t","="," ","c"," ">>,            \* host= c
    <<"h","o","s","t","=">>,                        \* host=
    <<"h","o","s","t","s","="," ","a"," ",";","b">>,  \* hosts= a ;b
    <<"H","o","s","t","=","a">>,                    \* Host=a
    <<"H","O","S","T","S","=","a">> }               \* HOSTS=a

\* name[:argspec,argspec,...]: the tokens of a name with n argspecs (n = 0: no colon)
TokensWith(name, n) ==
    IF n = 0 THEN {name}
    ELSE { name \o <<":">> \o join(<<",">>, specs) : specs \in [1..n -> ArgSpecs] }

\* the lists of k tokens, named TaskNames[1] to TaskNames[k], that hold at
\* most budget argspecs
RECURSIVE Lines(_, _)
Lines(k, budget) ==
    IF k = 0 THEN {<<>>}
    ELSE UNION { { front \o <<tok>> : tok \in TokensWith(TaskNames[k], n),
                                      front \in Lines(k - 1, budget - n) } :
                    n \in 0..budget }

CmdLines == UNION { Lines(k, MaxArgspecs) : k \in 0..MaxArgs }

\* state.py 56-59: the environment dict as created
env0 ==
    [x \in {S_version, S_settings_file} |->
        IF x = S_version THEN <<"0",".","2",".","0">>
        ELSE <<".","f","a","b","r","i","c","r","c">>]

\* environments after the settings were merged in: e unset, e = '', e = 'v,w'
Environments ==
    { env0, DictSet(env0, S_e, <<>>), DictSet(env0, S_e, <<"v", ",", "w">>) }

\* ---------------------------------------------------------- load_settings
\* iterating over an open file: the lines, each with its line end
RECURSIVE readlines(_)
readlines(content) ==
    LET i == find(content, "\n", 1) IN
    IF content = <<>> THEN <<>>
    ELSE IF i = 0 THEN <<content>>
    ELSE <<SubSeq(content, 1, i)>> \o readlines(SubSeq(content, i + 1, Len(content)))

\* line 37: comments = lambda s: s and not s.startswith("#")
comments(s) == s # <<>> /\ ~startswith(s, "#")

\* line 38: filter(comments, lines)
RECURSIVE filter_comments(_)
filter_comments(lines) ==
    IF lines = <<>> THEN <<>>
    ELSE (IF comments(Head(lines)) THEN <<Head(lines)>> ELSE <<>>)
         \o filter_comments(Tail(lines))

\* lines 39-40: dict((k.strip(), v.strip()) for k, _, v in [s.partition('=') ...])
RECURSIVE dict_of_lines(_, _)
dict_of_lines(lines, d) ==
    IF lines = <<>> THEN d
    ELSE LET kv == str_partition(Head(lines), "=") IN
         dict_of_lines(Tail(lines), DictSet(d, strip(kv[1]), strip(kv[3])))

\* lines 32-40: fs maps the names of the existing files to their contents
load_settings(name, fs) ==
    IF name \in DOMAIN fs
    THEN Some(dict_of_lines(filter_comments(readlines(fs[name])), EmptyDict))
    ELSE None

\* lines 17-22: the settings file of the home directory
rc_path(e) == e[S_settings_file]

\* the pieces a settings file is written from
LinePieces == {
    <<"a","=","1","\n">>,                       \* a=1
    <<"a","=","2","\n">>,                       \* a=2
    <<"\n">>,                                   \* (blank line)
    <<"#","c","\n">>,                           \* #c
    <<" ","#","c","\n">>,                       \*  #c
    <<"b","\n">>,                               \* b
    <<" ","e"," ","="," ","v","=","w"," ","\n">>,  \*  e = v=w
    <<"=","v","\n">>,                           \* =v
    <<"b">> }                                   \* b, without a line end

RECURSIVE Contents(_)
Contents(n) ==
    IF n = 0 THEN {<<>>}
    ELSE Contents(n - 1) \cup { c \o piece : c \in Contents(n - 1), piece \in LinePieces }

\* the home directory: without the settings file, or with one
Homes ==
    {EmptyDict} \cup { [x \in {rc_path(env0)} |-> c] : c \in Contents(MaxLines) }

\* ----------------------------------------------------------- find_fabfile
\* line 57
guesses == <<"fabfile.py", "Fabfile.py">>

\* the directories: the root <<>> and the chain below it
DirNames == <<"a", "b", "c", "d", "e", "f">>
Dir(n) == SubSeq(DirNames, 1, n)
Dirs == { Dir(n) : n \in 0..MaxDepth }
AllFiles == { d \o <<guesses[g]>> : d \in Dirs, g \in 1..2 }

\* os.path.normpath of an absolute path: '.' is dropped, '..' drops the
\* component before it, and stays at the root
RECURSIVE normpath(_, _)
normpath(comps, done) ==
    IF comps = <<>> THEN done
    ELSE IF Head(comps) = "." THEN normpath(Tail(comps), done)
    ELSE IF Head(comps) = ".." THEN
        normpath(Tail(comps), IF done = <<>> THEN <<>> ELSE SubSeq(done, 1, Len(done) - 1))
    ELSE normpath(Tail(comps), Append(done, Head(comps)))

\* os.path.abspath(p) in the working directory dir
abspath(p, dir) == normpath(dir \o p, <<>>)

\* os.path.split(p)[1] of an absolute path: '' at the root
basename(p) == IF p = <<>> THEN "" ELSE p[Len(p)]

\* os.path.split(p)[0] of an absolute path
dirname(p) == IF p = <<>> THEN <<>> ELSE SubSeq(p, 1, Len(p) - 1)

\* os.path.exists(p) for a relative path p
exists(p, dir, fs) == abspath(p, dir) \in fs

\* line 61: filter(lambda x: os.path.exists(os.path.join(path, x)), guesses)
found_guesses(p, dir, fs) ==
    (IF exists(Append(p, guesses[1]), dir, fs) THEN <<guesses[1]>> ELSE <<>>)
    \o (IF exists(Append(p, guesses[2]), dir, fs) THEN <<guesses[2]>> ELSE <<>>)

\* line 60: the loop condition
not_at_root(p, dir) == basename(abspath(p, dir)) # ""

\* next_path with the path left as it is
next_path_stay(p) == p

\* line 64: path = os.path.join('..', path)
next_path(p) == <<"..">> \o p

\* ----------------------------------------------------------- load_fabfile
\* a directory of the installation, always on sys.path
Lib == <<"lib">>

\* sys.path as load_fabfile finds it
SysPaths == {<<Lib>>} \cup { <<Lib, d>> : d \in Dirs }

\* the modules a fabfile can be: its top-level bindings, name -> callable
Modules ==
    { EmptyDict,
      [x \in {"version"} |-> FALSE],
      [x \in {"deploy", "version"} |-> x = "deploy"] }

\* line 84: dict(filter(lambda x: callable(x[1]), vars(imported).items()))
callables(module) == [x \in { y \in DOMAIN module : module[y] } |-> module[x]]

\* ------------------------------------------------------------------ main
Exit(n) == mpc' = "exited" /\ status' = n

\* utils.abort(msg): prints the message and exits with status 1
abort == Exit(1)

\* lines 222-228
MainParseOptions ==
    /\ mpc = "parse_options"
    /\ \E o \in [show_version : BOOLEAN, list_commands : BOOLEAN] :
          /\ options' = o
          /\ IF o.show_version THEN Exit(0)
             ELSE mpc' = "load_settings" /\ status' = status
    /\ UNCHANGED <<env, commands, pvars, svars, fvars, lvars>>

\* line 231, the call load_settings(rc_path())
MainLoadSettings ==
    /\ mpc = "load_settings"
    /\ \E h \in Homes :
          /\ home' = h
          /\ settings' = load_settings(rc_path(env), h)
    /\ mpc' = "env_update"
    /\ UNCHANGED <<status, options, env, commands, pvars, fvars, lvars>>

\* line 231, env.update(...): dict.update(None) raises TypeError, which
\* lines 286-289 turn into sys.exit(1)
MainEnvUpdate ==
    /\ mpc = "env_update"
    /\ IF settings.none
       THEN Exit(1) /\ env' = env
       ELSE /\ env' = DictUpdate(env, settings.val)
            /\ mpc' = "find_fabfile"
            /\ status' = status
    /\ home' = EmptyDict
    /\ settings' = None
    /\ UNCHANGED <<options, commands, pvars, fvars, lvars>>

\* line 234, the call, and lines 57-58
FindCall ==
    /\ mpc = "find_fabfile"
    /\ \E dir \in Dirs, fs \in SUBSET AllFiles :
          /\ cwd' = dir
          /\ files' = fs
    /\ path' = <<".">>
    /\ mpc' = "find_loop"
    /\ UNCHANGED <<fabfile, status, options, env, commands, pvars, svars, lvars>>

\* lines 60-64: one test of the loop condition and, when it holds, one pass
FindIter ==
    /\ mpc = "find_loop"
    /\ IF not_at_root(path, cwd)
       THEN LET found == found_guesses(path, cwd, files) IN
            IF found # <<>>
            THEN /\ fabfile' = Some(abspath(Append(path, found[1]), cwd))
                 /\ mpc' = "find_done"
                 /\ path' = path
            ELSE /\ path' = next_path(path)
                 /\ UNCHANGED <<fabfile, mpc>>
       ELSE /\ fabfile' = None
            /\ mpc' = "find_done"
            /\ path' = path
    /\ UNCHANGED <<cwd, files, status, options, env, commands, pvars, svars, lvars>>

\* lines 235-236
MainAfterFind ==
    /\ mpc = "find_done"
    /\ IF fabfile.none THEN abort
       ELSE mpc' = "load_fabfile" /\ status' = status
    /\ cwd' = <<>>
    /\ files' = {}
    /\ path' = <<>>
    /\ UNCHANGED <<fabfile, options, env, commands, pvars, svars, lvars>>

\* line 239, the call, and lines 72-77
LoadCall ==
    /\ mpc = "load_fabfile"
    /\ \E sp \in SysPaths :
          LET directory == dirname(fabfile.val) IN
          /\ sys_path_before' = sp
          /\ IF \A i \in 1..Len(sp) : sp[i] # directory
             THEN sys_path' = <<directory>> \o sp /\ added_to_path' = TRUE
             ELSE sys_path' = sp /\ added_to_path' = FALSE
    /\ mpc' = "import"
    /\ UNCHANGED <<imported, mvars_but_mpc, pvars, svars, fvars>>

\* line 79: the import returns the module, or raises
LoadImport ==
    /\ mpc = "import"
    /\ \/ \E m \in Modules : imported' = m /\ mpc' = "imported"
       \/ imported' = imported /\ mpc' = "load_raised"
    /\ UNCHANGED <<sys_path, sys_path_before, added_to_path, mvars_but_mpc, pvars, svars, fvars>>

\* lines 81-84
LoadReturn ==
    /\ mpc = "imported"
    /\ sys_path' = IF added_to_path THEN Tail(sys_path) ELSE sys_path
    /\ mpc' = "load_returned"
    /\ UNCHANGED <<sys_path_before, added_to_path, imported, mvars_but_mpc, pvars, svars, fvars>>

\* the exception of the import reaches lines 286-289
MainImportFailed ==
    /\ mpc = "load_raised"
    /\ Exit(1)
    /\ UNCHANGED <<options, env, commands, pvars, svars, fvars, lvars>>

\* lines 239-247 and 290: with commands, list_commands() exits with 0 and
\* so does the end of main
MainCommands ==
    /\ mpc = "load_returned"
    /\ commands' = DictUpdate(commands, callables(imported))
    /\ IF DOMAIN commands' = {} THEN abort
       ELSE Exit(0)
    /\ UNCHANGED <<options, env, pvars, svars, fvars, lvars>>

MainInit ==
    /\ mpc = "parse_options"
    /\ status = -1
    /\ options = [show_version |-> FALSE, list_commands |-> FALSE]
    /\ env = env0
    /\ commands = EmptyDict

SettingsIdle == home = EmptyDict /\ settings = None
FindIdle == cwd = <<>> /\ files = {} /\ path = <<>> /\ fabfile = None
LoadIdle ==
    /\ sys_path = <<>>
    /\ sys_path_before = <<>>
    /\ added_to_path = FALSE
    /\ imported = EmptyDict
MainIdle ==
    /\ mpc = "idle"
    /\ status = -1
    /\ options = [show_version |-> FALSE, list_commands |-> FALSE]
    /\ env = env0
    /\ commands = EmptyDict
ParseIdle == ENV = env0 /\ args = <<>> /\ cmds = <<>> /\ ppc = "idle"

Init == MainInit /\ SettingsIdle /\ FindIdle /\ LoadIdle /\ ParseIdle

Next ==
    \/ MainParseOptions
    \/ MainLoadSettings
    \/ MainEnvUpdate
    \/ FindCall
    \/ FindIter
    \/ MainAfterFind
    \/ LoadCall
    \/ LoadImport
    \/ LoadReturn
    \/ MainImportFailed
    \/ MainCommands

Spec == Init /\ [][Next]_vars

\* find_fabfile called on its own (line 234): the call and its loop.  The
\* function runs in one thread without waiting for anything, so that a pass
\* of the loop that can be taken is taken.
FindInit ==
    /\ mpc = "find_fabfile"
    /\ status = -1
    /\ options = [show_version |-> FALSE, list_commands |-> FALSE]
    /\ env = env0
    /\ commands = EmptyDict
    /\ SettingsIdle /\ FindIdle /\ LoadIdle /\ ParseIdle

NextFind == FindCall \/ FindIter

SpecFind == FindInit /\ [][NextFind]_vars /\ WF_vars(NextFind)

\* ------------------------------------------------ parse_arguments, stepwise
\* line 194, with the arguments drawn
ParseInit ==
    /\ ENV \in Environments
    /\ args \in CmdLines
    /\ cmds = <<>>
    /\ ppc = "loop"
    /\ MainIdle /\ SettingsIdle /\ FindIdle /\ LoadIdle

\* lines 195-215: one pass of the outer loop, over the next token
ParseIter ==
    /\ ppc = "loop"
    /\ Len(cmds) < Len(args)
    /\ LET r == parse_cmd(args[Len(cmds) + 1], ENV) IN
       IF r.exc # ""
       THEN /\ ppc' = "raised"
            /\ cmds' = cmds
       ELSE /\ cmds' = Append(cmds, r.val)
            /\ ppc' = "loop"
    /\ UNCHANGED <<ENV, args, mvars, svars, fvars, lvars>>

\* line 216
ParseReturn ==
    /\ ppc = "loop"
    /\ Len(cmds) = Len(args)
    /\ ppc' = "returned"
    /\ UNCHANGED <<ENV, args, cmds, mvars, svars, fvars, lvars>>

NextParse == ParseIter \/ ParseReturn

SpecParse == ParseInit /\ [][NextParse]_vars

\* -------------------------------------------- properties of parse_arguments
\* the argspecs of a token, as the grammar name[:argspec(,argspec)*] reads it
Argspecs(tok) ==
    IF find(tok, ":", 1) = 0 THEN <<>>
    ELSE split(SubSeq(tok, find(tok, ":", 1) + 1, Len(tok)), ",")

\* the part of an argspec before its first "=", and the part after it
KeyOf(spec) == IF find(spec, "=", 1) = 0 THEN spec ELSE SubSeq(spec, 1, find(spec, "=", 1) - 1)
ValOf(spec) == IF find(spec, "=", 1) = 0 THEN <<>> ELSE SubSeq(spec, find(spec, "=", 1) + 1, Len(spec))
HasEq(spec) == find(spec, "=", 1) # 0

\* the elements of a hosts value: split on ';', each element trimmed
HostList(v) == [i \in 1..Len(split(v, ";")) |-> strip(split(v, ";")[i])]

\* the argspecs without "=", in order
RECURSIVE Barewords(_)
Barewords(specs) ==
    IF specs = <<>> THEN <<>>
    ELSE (IF HasEq(Head(specs)) THEN <<>> ELSE <<Head(specs)>>) \o Barewords(Tail(specs))

\* the keys of the argspecs whose value part is empty, in order
RECURSIVE KeysOfValueless(_)
KeysOfValueless(specs) ==
    IF specs = <<>> THEN <<>>
    ELSE (IF ValOf(Head(specs)) = <<>> THEN <<KeyOf(Head(specs))>> ELSE <<>>)
         \o KeysOfValueless(Tail(specs))

\* C1: a token that holds both a non-empty host= argspec and a non-empty
\* hosts= argspec, in either order, gives hostOverrides equal to the trimmed
\* elements of the hosts value (hosts wins over host).
C1_HostsWins ==
    \A i \in 1..Len(cmds) :
        LET specs == Argspecs(args[i]) IN
        \A a, b \in 1..Len(specs) :
            (/\ KeyOf(specs[a]) = S_host /\ ValOf(specs[a]) # <<>>
             /\ KeyOf(specs[b]) = S_hosts /\ ValOf(specs[b]) # <<>>)
            => HostOverrides(cmds[i]) = HostList(ValOf(specs[b]))

\* C2: no record has host or hosts among its keywordArgs; Host and HOSTS are
\* stored as ordinary keyword arguments, and hostOverrides is empty or comes
\* from an argspec whose key is exactly host or hosts.
C2_NoHostKeys ==
    \A i \in 1..Len(cmds) :
        LET specs == Argspecs(args[i])
            rec == cmds[i]
        IN
        /\ S_host \notin DOMAIN KeywordArgs(rec)
        /\ S_hosts \notin DOMAIN KeywordArgs(rec)
        /\ \A a \in 1..Len(specs) :
              (KeyOf(specs[a]) \in {<<"H","o","s","t">>, <<"H","O","S","T","S">>}
                  /\ ValOf(specs[a]) # <<>>)
              => KeyOf(specs[a]) \in DOMAIN KeywordArgs(rec)
        /\ \/ HostOverrides(rec) = <<>>
           \/ \E a \in 1..Len(specs) :
                 \/ KeyOf(specs[a]) = S_host /\ HostOverrides(rec) = <<strip(ValOf(specs[a]))>>
                 \/ KeyOf(specs[a]) = S_hosts /\ HostOverrides(rec) = HostList(ValOf(specs[a]))

\* a returned list with a record that has host overrides and keeps Host as a
\* keyword argument
C2_Witness ==
    /\ ppc = "returned"
    /\ \E i \in 1..Len(cmds) :
          /\ HostOverrides(cmds[i]) # <<>>
          /\ <<"H","o","s","t">> \in DOMAIN KeywordArgs(cmds[i])

\* C6: parse_arguments returns one record per token, in order; the name of
\* the i-th record is the i-th token up to its first ':', and a token
\* without ':' gives empty positionalArgs, keywordArgs and hostOverrides.
C6_OneRecordPerToken ==
    /\ ppc # "raised"
    /\ ppc = "returned" =>
          /\ Len(cmds) = Len(args)
          /\ \A i \in 1..Len(cmds) :
                IF find(args[i], ":", 1) = 0
                THEN cmds[i] = <<args[i], <<>>, EmptyDict, <<>>>>
                ELSE Name(cmds[i]) = SubSeq(args[i], 1, find(args[i], ":", 1) - 1)

\* the orders in which the keys of a mapping can be written out
KeyOrders(d) ==
    { f \in [1..Cardinality(DOMAIN d) -> DOMAIN d] :
         \A i, j \in 1..Cardinality(DOMAIN d) : i # j => f[i] # f[j] }

\* name:p1,...,pn,k1=v1,...,km=vm with the keyword arguments in the given
\* order; a record without arguments is written as its bare name, as the
\* grammar name[:argspec(,argspec)*] has it
Serialize(rec, order) ==
    IF PositionalArgs(rec) = <<>> /\ order = <<>> THEN Name(rec)
    ELSE Name(rec) \o <<":">> \o
         join(<<",">>,
              PositionalArgs(rec) \o
              [i \in 1..Len(order) |-> order[i] \o <<"=">> \o KeywordArgs(rec)[order[i]]])

\* re-parsing the serialized record gives the same name, positional and keyword arguments
RoundTrips(rec) ==
    \A order \in KeyOrders(KeywordArgs(rec)) :
        LET again == parse_cmd(Serialize(rec, order), ENV) IN
        /\ again.exc = ""
        /\ Name(again.val) = Name(rec)
        /\ PositionalArgs(again.val) = PositionalArgs(rec)
        /\ KeywordArgs(again.val) = KeywordArgs(rec)

\* the characters of a string
Chars(str) == { str[i] : i \in 1..Len(str) }

\* a record whose keyword values are non-empty and free of '%' and ','
PlainRecord(rec) ==
    \A k \in DOMAIN KeywordArgs(rec) :
        /\ KeywordArgs(rec)[k] # <<>>
        /\ Chars(KeywordArgs(rec)[k]) \cap {"%", ","} = {}

\* C7 (as stated): every record produced by parse_arguments, serialized as
\* name:p1,...,pn,k1=v1,...,km=vm and parsed again under the same
\* Environment, gives the same name, positionalArgs and keywordArgs.
C7_RoundTrip ==
    \A i \in 1..Len(cmds) : RoundTrips(cmds[i])

\* C7 (amended): the round trip holds for every produced record whose
\* keyword values are non-empty and contain neither '%' nor ','.
C7_RoundTripPlain ==
    \A i \in 1..Len(cmds) : PlainRecord(cmds[i]) => RoundTrips(cmds[i])

\* a returned plain record with both a positional and a keyword argument
C7_Witness ==
    /\ ppc = "returned"
    /\ \E i \in 1..Len(cmds) :
          /\ PlainRecord(cmds[i])
          /\ PositionalArgs(cmds[i]) # <<>>
          /\ DOMAIN KeywordArgs(cmds[i]) # {}

\* the value stored for an argspec: the interpolated value, or the key when
\* that is empty
StoredValue(spec) ==
    IF Interpolate(ValOf(spec), ENV).val # <<>>
    THEN Interpolate(ValOf(spec), ENV).val
    ELSE KeyOf(spec)

HostKeys == {S_host, S_hosts}

\* the argspec at position a is the last one of specs with its key among
\* those that satisfy the same test (a set of positions)
LastOfKey(specs, a, among) ==
    \A b \in among : (b > a) => KeyOf(specs[b]) # KeyOf(specs[a])

\* C9 (as stated): every argspec that contains '=' and whose key is neither
\* host nor hosts is recorded in keywordArgs under its key, with the
\* interpolated value or, when that is empty, the key (the last argspec of a
\* key decides), and adds nothing to positionalArgs.
C9_EqualsMakesKeyword ==
    \A i \in 1..Len(cmds) :
        LET specs == Argspecs(args[i])
            rec == cmds[i]
            kw == { a \in 1..Len(specs) : HasEq(specs[a]) /\ KeyOf(specs[a]) \notin HostKeys }
        IN
        /\ \A a \in kw :
              /\ KeyOf(specs[a]) \in DOMAIN KeywordArgs(rec)
              /\ LastOfKey(specs, a, kw) => KeywordArgs(rec)[KeyOf(specs[a])] = StoredValue(specs[a])
        /\ Len(PositionalArgs(rec)) <= Len(specs) - Cardinality(kw)

\* C9 (amended): every argspec whose value (the part after its first '=') is
\* non-empty and whose key is neither host nor hosts is recorded in
\* keywordArgs under its key, with the interpolated value or, when that is
\* empty, the key (the last argspec of a key decides), and keywordArgs has
\* no other key; positionalArgs is the keys of the argspecs whose value is
\* empty, in order, so that 'k=' adds the positional argument k.
C9_ValueMakesKeyword ==
    \A i \in 1..Len(cmds) :
        LET specs == Argspecs(args[i])
            rec == cmds[i]
            kw == { a \in 1..Len(specs) : ValOf(specs[a]) # <<>> /\ KeyOf(specs[a]) \notin HostKeys }
        IN
        /\ DOMAIN KeywordArgs(rec) = { KeyOf(specs[a]) : a \in kw }
        /\ \A a \in kw :
              LastOfKey(specs, a, kw) => KeywordArgs(rec)[KeyOf(specs[a])] = StoredValue(specs[a])
        /\ PositionalArgs(rec) = KeysOfValueless(specs)

\* a returned record in which 'k=' became the positional argument k and an
\* argspec of key k whose interpolated value is empty stored the key itself
C9_Witness ==
    /\ ppc = "returned"
    /\ \E i \in 1..Len(cmds) :
          /\ PositionalArgs(cmds[i]) = <<S_k>>
          /\ S_k \in DOMAIN KeywordArgs(cmds[i])
          /\ KeywordArgs(cmds[i])[S_k] = S_k
          /\ \E a \in 1..Len(Argspecs(args[i])) : Argspecs(args[i])[a] = <<"k", "=">>

\* ---------------------------------------------- properties of load_settings
\* the lines of a settings file that are neither blank nor comments: after
\* trimming, not empty and not starting with '#'
RECURSIVE SettingLines(_)
SettingLines(lines) ==
    IF lines = <<>> THEN <<>>
    ELSE (IF strip(Head(lines)) # <<>> /\ ~startswith(strip(Head(lines)), "#")
          THEN <<Head(lines)>> ELSE <<>>)
         \o SettingLines(Tail(lines))

\* C3: load_settings of a path that does not exist returns an empty mapping,
\* so that main's env.update(load_settings(rc_path())) leaves env unchanged
\* and main goes on to find_fabfile.
C3_MissingFileIsEmpty ==
    (mpc = "env_update" /\ rc_path(env) \notin DOMAIN home)
        => settings = Some(EmptyDict)

\* C8: for an existing settings file the keys of the mapping are exactly the
\* trimmed, non-empty left parts of the lines that are neither blank nor
\* comments, each with the trimmed right part of its last line; loading the
\* file again gives the same mapping.
C8_SettingsKeys ==
    (mpc = "env_update" /\ rc_path(env) \in DOMAIN home) =>
        LET lines == SettingLines(readlines(home[rc_path(env)]))
            keyed == { i \in 1..Len(lines) : strip(KeyOf(lines[i])) # <<>> }
        IN
        /\ ~settings.none
        /\ DOMAIN settings.val = { strip(KeyOf(lines[i])) : i \in keyed }
        /\ \A i \in keyed :
              (\A j \in keyed : j > i => strip(KeyOf(lines[j])) # strip(KeyOf(lines[i])))
              => settings.val[strip(KeyOf(lines[i]))] = strip(ValOf(lines[i]))
        /\ load_settings(rc_path(env), home) = settings

\* ----------------------------------------------- properties of load_fabfile
\* C4: on every exit of load_fabfile, by return or by the exception of the
\* import, sys.path is what it was before the call.
C4_SysPathRestored ==
    mpc \in {"load_returned", "load_raised"} => sys_path = sys_path_before

\* ----------------------------------------------- properties of find_fabfile
\* the working directory and its ancestors, up to the root <<>>
AncestorChain == { SubSeq(cwd, 1, n) : n \in 0..Len(cwd) }

\* the directory holds fabfile.py or Fabfile.py
HoldsFabfile(dir) == \E g \in 1..2 : dir \o <<guesses[g]>> \in files

\* the directory of the set nearest to the working directory
Nearest(dirs) == CHOOSE d \in dirs : \A o \in dirs : Len(o) <= Len(d)

\* the file find_fabfile is to return from a directory that holds one
PreferredIn(dir) ==
    IF dir \o <<guesses[1]>> \in files THEN dir \o <<guesses[1]>> ELSE dir \o <<guesses[2]>>

\* C5: when the working directory or one of its ancestors up to the root
\* holds fabfile.py or Fabfile.py, find_fabfile returns the path of the file
\* in the nearest such directory, fabfile.py if it is there and Fabfile.py
\* otherwise.
C5_NearestLowercaseFirst ==
    (mpc = "find_done" /\ \E d \in AncestorChain : HoldsFabfile(d)) =>
        fabfile = Some(PreferredIn(Nearest({ d \in AncestorChain : HoldsFabfile(d) })))

\* C10: find_fabfile terminates: every pass of its loop moves to the parent
\* of the directory just examined, the loop ends at the filesystem root, and
\* with no fabfile.py or Fabfile.py in the ancestor chain it returns None.
C10_Terminates ==
    /\ (mpc = "find_loop") ~> (mpc = "find_done")
    /\ [][(mpc = "find_loop" /\ mpc' = "find_loop")
            => abspath(path', cwd') = dirname(abspath(path, cwd))]_vars
    /\ [][(mpc = "find_loop" /\ abspath(path, cwd) = <<>>)
            => (mpc' = "find_done" /\ fabfile' = None)]_vars
    /\ []((mpc = "find_done" /\ ~\E d \in AncestorChain : HoldsFabfile(d))
            => fabfile = None)

\* find_fabfile has returned None from the deepest working directory, after
\* its loop climbed through every directory below the root
C10_Witness ==
    /\ mpc = "find_done"
    /\ fabfile = None
    /\ Len(cwd) = MaxDepth
    /\ Len(path) = MaxDepth + 1
    /\ abspath(path, cwd) = <<>>

====
